---------------------------- MODULE Spec2Model ----------------------------
(***************************************************************************)
(* Model of Aliasing/aliasing.py: the manual three-period DFT              *)
(* (compute_dft) and the window object that samples a sinusoid, plots it   *)
(* and its DFT, and re-renders on every frequency change (Aliasing_Window).*)
(*                                                                         *)
(* Numbers.  The program computes with IEEE doubles.  Two things are       *)
(* modelled separately:                                                    *)
(*  - the LENGTH of np.arange(0, stop, 1/d) is decided by the rounded      *)
(*    quotient stop / fl(1/d); it is modelled bit-exactly (ArangeLen);     *)
(*  - the VALUES (sines, complex exponentials, their sums) are modelled in *)
(*    exact arithmetic, as rational combinations of roots of unity         *)
(*    (records [den, scale, co]); statements about a magnitude being zero  *)
(*    are statements about the exact value, which the doubles of the       *)
(*    program approximate up to rounding.                                  *)
(***************************************************************************)
EXTENDS Integers, Sequences, FiniteSets, TLC

VARIABLES
    fs, freq, duree, f_min, f_max,   \* Aliasing_Window fields (lines 30-34)
    td, fd,                          \* the two plot surfaces (lines 38-39)
    freq_slider,                     \* the Slider widget (lines 58-61)
    pc,                              \* "Idle" or "Saving" (inside animate)
    an,                              \* the running export: frames, writer
    out_file,                        \* the file at the export's output path
    last_arg, sweep,                 \* history: last update argument; the
                                     \* arguments of the running export
    e_fs, e_duree, e_sig, e_out, e_pc  \* one call of compute_dft

vars == <<fs, freq, duree, f_min, f_max, td, fd, freq_slider, pc, an,
          out_file, last_arg, sweep, e_fs, e_duree, e_sig, e_out, e_pc>>

ctl_vars == <<fs, freq, duree, f_min, f_max, td, fd, freq_slider, pc, an,
              out_file, last_arg, sweep>>

eng_vars == <<e_fs, e_duree, e_sig, e_out, e_pc>>

---------------------------------------------------------------------------
(* Integers and rationals *)

Abs(x) == IF x < 0 THEN -x ELSE x

RECURSIVE GCD(_, _)
GCD(a, b) == IF b = 0 THEN a ELSE GCD(b, a % b)

LCM(a, b) == (a \div GCD(a, b)) * b

\* The rational n/d (d # 0) in lowest terms with a positive denominator.
Rat(n, d) ==
    LET g == GCD(Abs(n), Abs(d))
        s == IF d < 0 THEN -1 ELSE 1
    IN  [num |-> s * (n \div g), den |-> s * (d \div g)]

RatInt(n) == [num |-> n, den |-> 1]

RatAdd(x, y) == Rat(x.num * y.den + y.num * x.den, x.den * y.den)

RatNeg(x) == [num |-> -x.num, den |-> x.den]

RatLeq(x, y) == x.num * y.den <= y.num * x.den

RatLt(x, y) == x.num * y.den < y.num * x.den

---------------------------------------------------------------------------
(* IEEE-754 double division, as far as np.arange's length depends on it.   *)
(* len(np.arange(0, stop, 1/d)) = ceil(fl(stop / fl(1/d))) for Python ints *)
(* stop and d.  With c the least exponent such that d <= 2^c and           *)
(* e = 52 + c, fl(1/d) = m / 2^e where m is 2^e / d rounded to nearest, so *)
(* 2^e = m*d + rho with rho = 2^e mod d taken in (-d/2, d/2).  The exact   *)
(* quotient is stop*d + stop*rho/m: when rho <= 0 it rounds to stop*d or   *)
(* just below, and the ceiling is stop*d; when rho > 0 it rounds up to the *)
(* next double above T = stop*d, and the ceiling is T + 1, exactly when    *)
(* T*rho >= 2^(c + floor(log2 T) - 1).                                     *)

RECURSIVE Pow2(_)
Pow2(n) == IF n = 0 THEN 1 ELSE 2 * Pow2(n - 1)

RECURSIVE CeilLog2(_)
CeilLog2(d) == IF d <= 1 THEN 0 ELSE 1 + CeilLog2((d + 1) \div 2)

RECURSIVE FloorLog2(_)
FloorLog2(t) == IF t <= 1 THEN 0 ELSE 1 + FloorLog2(t \div 2)

\* The remainder 2^(52+c) mod d, c = CeilLog2(d), of the rounding of 1/d to
\* a double: 2^(52+c) is 2^26 * 2^26 * 2^c, and 2^26 is 67108864.
RecipRemainder(d) ==
    LET h == 67108864 % d
    IN  (((h * h) % d) * (Pow2(CeilLog2(d)) % d)) % d

\* ceil(fl(stop / fl(1/d))) for stop >= 1, d >= 1.
QuotientCeil(stop, d) ==
    LET T == stop * d
        r == RecipRemainder(d)
    IN  IF r # 0 /\ 2 * r < d
           /\ T * r >= Pow2(CeilLog2(d) + FloorLog2(T) - 1)
        THEN T + 1
        ELSE T

\* len(np.arange(0, stop, 1/d)) for Python ints stop and d # 0: the ceiling
\* of the quotient, and no element when the quotient is not positive.
ArangeLen(stop, d) ==
    IF stop = 0 \/ (stop < 0) # (d < 0) THEN 0
    ELSE QuotientCeil(Abs(stop), Abs(d))

---------------------------------------------------------------------------
(* Exact complex numbers: [den |-> L, scale |-> s, co |-> c] is the number  *)
(*   (1/s) * SUM over e in DOMAIN c of c[e] * exp(2*pi*i*e/L),             *)
(* with 4 | L, exponents kept in 0 .. L/2 - 1 (exp(2*pi*i*(e + L/2)/L) is  *)
(* minus exp(2*pi*i*e/L)) and no zero coefficient stored.                  *)

Zero == [den |-> 4, scale |-> 1, co |-> <<>>]

\* The exponent e mod L as <<sign, exponent below L/2>>.
Fold(e, L) ==
    LET r == e % L
    IN  IF r < L \div 2 THEN <<1, r>> ELSE <<-1, r - L \div 2>>

Trim(L, s, f) ==
    LET S == {x \in DOMAIN f : f[x] # 0}
    IN  IF S = {} THEN Zero
        ELSE [den |-> L, scale |-> s, co |-> [e \in S |-> f[e]]]

CoAt(x, e) == IF e \in DOMAIN x.co THEN x.co[e] ELSE 0

\* x rewritten over the finer lattice L (x.den divides L).
Lift(x, L) ==
    LET m == L \div x.den
    IN  [den |-> L, scale |-> x.scale,
         co |-> [e \in {m * d : d \in DOMAIN x.co} |-> x.co[e \div m]]]

Add(x, y) ==
    LET L == LCM(x.den, y.den)
        s == LCM(x.scale, y.scale)
        a == Lift(x, L)
        b == Lift(y, L)
    IN  Trim(L, s, [e \in DOMAIN a.co \cup DOMAIN b.co |->
                      CoAt(a, e) * (s \div x.scale)
                      + CoAt(b, e) * (s \div y.scale)])

ScaleInt(x, c) == Trim(x.den, x.scale, [e \in DOMAIN x.co |-> c * x.co[e]])

DivInt(x, s) ==
    IF DOMAIN x.co = {} THEN Zero
    ELSE [den |-> x.den, scale |-> x.scale * s, co |-> x.co]

Neg(x) == ScaleInt(x, -1)

Sub(x, y) == Add(x, Neg(y))

\* exp(2*pi*i*a/d) for d >= 1.
Root(a, d) ==
    LET L == LCM(4, d)
        fe == Fold((a % d) * (L \div d), L)
    IN  [den |-> L, scale |-> 1, co |-> (fe[2] :> fe[1])]

\* The integer c.
Const(c) == ScaleInt(Root(0, 1), c)

\* x * exp(2*pi*i*a/d): the exponents of x shifted by a/d of a turn.
MulRoot(x, a, d) ==
    LET L == LCM(x.den, LCM(4, d))
        u == Lift(x, L)
        sh == (a % d) * (L \div d)
    IN  [den |-> L, scale |-> x.scale,
         co |-> [t \in {Fold(e + sh, L)[2] : e \in DOMAIN u.co} |->
                   LET b == Fold(t - sh, L)
                   IN  b[1] * u.co[b[2]]]]

\* The coefficient of the product of a and b (both over L) at exponent t:
\* the sum over the exponents lo..hi of a, added pairwise.
RECURSIVE MulCo(_, _, _, _, _)
MulCo(a, b, t, lo, hi) ==
    IF lo = hi
    THEN IF lo \in DOMAIN a.co
         THEN LET r == Fold(t - lo, a.den)
              IN  a.co[lo] * r[1] * CoAt(b, r[2])
         ELSE 0
    ELSE LET mid == (lo + hi) \div 2
         IN  MulCo(a, b, t, lo, mid) + MulCo(a, b, t, mid + 1, hi)

Mul(x, y) ==
    IF DOMAIN x.co = {} \/ DOMAIN y.co = {} THEN Zero
    ELSE LET L == LCM(x.den, y.den)
             a == Lift(x, L)
             b == Lift(y, L)
             T == {Fold(e + g, L)[2] : e \in DOMAIN a.co, g \in DOMAIN b.co}
         IN  Trim(L, x.scale * y.scale,
                  [t \in T |-> MulCo(a, b, t, 0, L \div 2 - 1)])

\* The complex conjugate.
Conj(x) ==
    [den |-> x.den, scale |-> x.scale,
     co |-> [t \in {Fold(-e, x.den)[2] : e \in DOMAIN x.co} |->
               LET b == Fold(-t, x.den)
               IN  b[1] * x.co[b[2]]]]

\* sin(2*pi*a/d) for d >= 1: (exp(i*u) + exp(-i*u)) / 2 with u the angle
\* less a quarter turn, (4a - d)/(4d) of a turn.
SinTurn(a, d) ==
    LET L == 4 * d
        p == Fold(4 * a - d, L)
        m == Fold(d - 4 * a, L)
    IN  IF p[2] # m[2]
        THEN [den |-> L, scale |-> 2, co |-> (p[2] :> p[1]) @@ (m[2] :> m[1])]
        ELSE IF p[1] + m[1] = 0 THEN Zero
        ELSE [den |-> L, scale |-> 2, co |-> (p[2] :> (p[1] + m[1]))]

(* The canonical coordinates of a number: for every odd prime p dividing L *)
(* the p roots exp(2*pi*i*(e + j*L/p)/L), j = 0..p-1, sum to zero; the     *)
(* exponents whose residue modulo the p-part q of L lies in the top q/p    *)
(* residues are eliminated by that relation.  What is left are the         *)
(* coordinates in a basis, so a number is zero iff they are all zero.      *)

IsPrime(p) == p > 1 /\ \A q \in 2..(p - 1) : p % q # 0

OddPrimes(L) == {p \in 3..L : L % p = 0 /\ IsPrime(p)}

RECURSIVE PPart(_, _)
PPart(L, p) == IF L % p = 0 THEN p * PPart(L \div p, p) ELSE 1

IsTop(e, L, p) == LET q == PPart(L, p) IN (e % q) >= q - q \div p

ReduceP(v, L, p) ==
    [d \in 0..(L \div 2 - 1) |->
        IF IsTop(d, L, p) THEN 0
        ELSE LET t == CHOOSE t \in {Fold(d + j * (L \div p), L) : j \in 1..(p - 1)} :
                        IsTop(t[2], L, p)
             IN  v[d] - t[1] * v[t[2]]]

RECURSIVE ReduceAll(_, _, _)
ReduceAll(v, L, P) ==
    IF P = {} THEN v
    ELSE LET p == CHOOSE p \in P : TRUE
         IN  ReduceAll(ReduceP(v, L, p), L, P \ {p})

Canon(x) ==
    ReduceAll([d \in 0..(x.den \div 2 - 1) |-> CoAt(x, d)], x.den,
              OddPrimes(x.den))

IsZero(x) ==
    DOMAIN x.co = {} \/ LET c == Canon(x) IN \A d \in DOMAIN c : c[d] = 0

EqNum(x, y) == IsZero(Sub(x, y))

\* |x|^2, and whether x has magnitude at most that of y.  |x|^2 is real; it
\* is compared when it is rational (IsRational), which is what the sums of
\* this model are.
Reduced(x) == Trim(x.den, x.scale, Canon(x))

MagSq(x) == LET r == Reduced(x) IN Mul(r, Conj(r))

IsRational(z) ==
    DOMAIN z.co = {} \/ LET c == Canon(z) IN \A d \in DOMAIN c : d = 0 \/ c[d] = 0

RatPart(z) == IF DOMAIN z.co = {} THEN 0 ELSE Canon(z)[0]

MagLeq(x, y) ==
    LET a == MagSq(x)
        b == MagSq(y)
    IN  /\ IsRational(a) /\ IsRational(b)
        /\ RatPart(a) * b.scale <= RatPart(b) * a.scale

---------------------------------------------------------------------------
(* The DFT engine, lines 15-23 *)

\* np.sum(sig * np.exp(-1j*2*np.pi*k*idxs/N)) over idxs = lo .. hi-1, the
\* terms added pairwise.
RECURSIVE dft_sum(_, _, _, _, _)
dft_sum(sig, k, N, lo, hi) ==
    IF hi <= lo THEN Zero
    ELSE IF hi = lo + 1 THEN MulRoot(sig[lo + 1], -(k * lo), N)
    ELSE LET mid == (lo + hi) \div 2
         IN  Add(dft_sum(sig, k, N, lo, mid), dft_sum(sig, k, N, mid, hi))

\* The sum with the first sample left out (idxs starting at 1).
dft_bin_skip_first(sig, k) == dft_sum(sig, k, Len(sig), 1, Len(sig))

dft_bin(sig, k) == dft_sum(sig, k, Len(sig), 0, Len(sig))

\* The number of frequency points: len(np.arange(0, 3*fs, 1/duree)).
dft_len(rate, dur) == ArangeLen(3 * rate, dur)

\* freqs = np.arange(0, 3*fs, 1/duree): freqs[k] is k steps of 1/duree.
\* Sequences are 1-based here: element k of the program is element k+1.
dft_freqs(rate, dur) == [k \in 1..dft_len(rate, dur) |-> Rat(k - 1, dur)]

\* tf, one sum over the samples per frequency point (lines 21-22).
dft_tf(rate, dur, sig) ==
    [k \in 1..dft_len(rate, dur) |-> dft_bin(sig, k - 1)]

\* compute_dft(fs, duree, sig) for Python ints fs and duree: 1/duree raises
\* ZeroDivisionError when duree is 0; nothing else raises.
compute_dft(rate, dur, sig) ==
    IF dur = 0
    THEN [outcome |-> "ZeroDivisionError", freqs |-> <<>>, tf |-> <<>>]
    ELSE [outcome |-> "ok", freqs |-> dft_freqs(rate, dur),
          tf |-> dft_tf(rate, dur, sig)]

\* gen_sig with the cosine in place of the sine (a quarter turn ahead).
gen_sig_cos(rate, dur, f) ==
    LET N == ArangeLen(dur, rate)
    IN  [t |-> [n \in 1..N |-> Rat(n - 1, rate)],
         sig |-> [n \in 1..N |->
                     SinTurn(4 * f.num * (n - 1) + f.den * rate,
                             4 * f.den * rate)]]

\* gen_sig with the instant duree itself sampled as well.
gen_sig_endpoint(rate, dur, f) ==
    LET N == ArangeLen(dur, rate) + 1
    IN  [t |-> [n \in 1..N |-> Rat(n - 1, rate)],
         sig |-> [n \in 1..N |-> SinTurn(f.num * (n - 1), f.den * rate)]]

\* gen_sig (lines 73-77) for fs >= 1: t = np.arange(0, duree, 1/fs) and
\* sig = sin(2*pi*freq*t), the frequency f a rational number.
gen_sig(rate, dur, f) ==
    LET N == ArangeLen(dur, rate)
    IN  [t |-> [n \in 1..N |-> Rat(n - 1, rate)],
         sig |-> [n \in 1..N |-> SinTurn(f.num * (n - 1), f.den * rate)]]

---------------------------------------------------------------------------
(* The window, lines 26-110 *)

init_fs == 50
init_freq == 1
init_duree == 3
init_f_min == 1
init_f_max == 150

\* np.linspace's default number of points (line 109 passes none).
linspace_num == 50

\* A plot surface after clear(): no artist, no title, no labels.
EmptyAxes == [artists |-> <<>>, title |-> "", xlabel |-> "", ylabel |-> "",
              xlim |-> <<>>, error |-> ""]

\* init_time_domain (lines 63-71) on the surface ax.  The reference curve is
\* kept by what generates it: sin(2*pi*f*t) on np.arange(0, duree,
\* 1/(10*f_max)).
init_time_domain(ax, rate, dur, f, fmax) ==
    LET g == gen_sig(rate, dur, f)
        an_curve == [kind |-> "line", fmt |-> "", n |-> ArangeLen(dur, 10 * fmax),
                     step_den |-> 10 * fmax, sin_of |-> f]
        samples == [kind |-> "line", fmt |-> "r+:", t |-> g.t, sig |-> g.sig]
    IN  [ax EXCEPT !.artists = ax.artists \o <<an_curve, samples>>,
                   !.title = "Domaine temporel",
                   !.xlabel = "Temps [s]"]

\* The vertical lines with the first family one sample rate too high.
RECURSIVE axvlines_shift(_, _, _)
axvlines_shift(rate, f, idx) ==
    IF idx >= 4
    THEN <<[kind |-> "axvline", x |-> f, color |-> "b", dashes |-> <<>>,
            linewidth |-> 2]>>
    ELSE <<[kind |-> "axvline", x |-> RatAdd(RatInt(idx * rate), f),
            color |-> "b", dashes |-> <<1, 1>>, linewidth |-> 2],
           [kind |-> "axvline", x |-> RatAdd(RatNeg(f), RatInt((idx + 1) * rate)),
            color |-> "r", dashes |-> <<1, 1>>, linewidth |-> 2]>>
         \o axvlines_shift(rate, f, idx + 1)

\* The vertical lines of lines 86-91, in drawing order.
RECURSIVE axvlines(_, _, _)
axvlines(rate, f, idx) ==
    IF idx >= 4
    THEN <<[kind |-> "axvline", x |-> f, color |-> "b", dashes |-> <<>>,
            linewidth |-> 2]>>
    ELSE <<[kind |-> "axvline", x |-> RatAdd(RatInt((idx - 1) * rate), f),
            color |-> "b", dashes |-> <<1, 1>>, linewidth |-> 2],
           [kind |-> "axvline", x |-> RatAdd(RatNeg(f), RatInt((idx + 1) * rate)),
            color |-> "r", dashes |-> <<1, 1>>, linewidth |-> 2]>>
         \o axvlines(rate, f, idx + 1)

\* init_freq_domain (lines 79-97) on the surface ax, for duree # 0.  Of the
\* result of compute_dft the frequency axis is kept as it is; the plotted
\* ordinates abs(tf) are kept by the samples compute_dft was given
\* (mag_of): they are abs(dft_tf(fs, duree, mag_of)), evaluated where they
\* are read.  fill_idxs is 0 .. len(sig)-1, so freqs[fill_idxs] is the first
\* len(sig) elements of freqs, and raises IndexError when there are fewer;
\* the calls after it are then not made.
init_freq_domain(ax, rate, dur, f) ==
    LET sig == gen_sig(rate, dur, f).sig
        freqs == dft_freqs(rate, dur)
        plot == [kind |-> "line", fmt |-> "", freqs |-> freqs, mag_of |-> sig]
        drawn == [ax EXCEPT !.artists =
                     ax.artists \o <<plot>> \o axvlines(rate, f, 0)]
        fill_idxs == [i \in 1..Len(sig) |-> i - 1]
    IN  IF Len(sig) > Len(freqs)
        THEN [drawn EXCEPT !.error = "IndexError"]
        ELSE [drawn EXCEPT
                !.artists = drawn.artists \o
                    <<[kind |-> "fill_between", idxs |-> fill_idxs,
                       x |-> SubSeq(freqs, 1, Len(sig)),
                       mag_of |-> sig]>>,
                !.xlim = <<0, 3 * rate>>,
                !.title = "Domaine frequenciel",
                !.xlabel = "Frequence [Hz]",
                !.ylabel = "Amplitude"]

\* init_sliders (lines 53-61).
init_sliders == [val |-> RatInt(init_freq), valmin |-> init_f_min,
                 valmax |-> init_f_max, valstep |-> 1]

\* update with the surfaces rendered before the new frequency is stored.
update_stale(f) ==
    /\ freq' = f
    /\ td' = init_time_domain(EmptyAxes, fs, duree, freq, f_max)
    /\ fd' = init_freq_domain(EmptyAxes, fs, duree, freq)
    /\ last_arg' = <<f>>
    /\ UNCHANGED <<fs, duree, f_min, f_max>>

\* update(freq), lines 45-51: the new frequency is stored, both surfaces are
\* cleared and both domains are rendered again, in one uninterrupted call.
update(f) ==
    /\ freq' = f
    /\ td' = init_time_domain(EmptyAxes, fs, duree, f, f_max)
    /\ fd' = init_freq_domain(EmptyAxes, fs, duree, f)
    /\ last_arg' = <<f>>
    /\ UNCHANGED <<fs, duree, f_min, f_max>>

\* linspace without its end point: num points a + i*(b - a)/num.
linspace_open(a, b, num) ==
    [i \in 1..num |-> Rat(a * num + (i - 1) * (b - a), num)]

\* np.linspace(a, b): num points a + i*(b - a)/(num - 1), the last one set to
\* b itself.
linspace(a, b, num) ==
    [i \in 1..num |-> IF i = num THEN RatInt(b)
                      ELSE Rat(a * (num - 1) + (i - 1) * (b - a), num - 1)]

NoExport == [frames |-> <<>>, drawn |-> 0, grabbed |-> 0, fps |-> 0,
             held |-> FALSE, outcome |-> "none", exc |-> ""]

\* The positions the user drags the slider to, and the frame rates exports
\* are asked for.
MaxDrag == 3
DragStops == {init_f_min, 24, 25, init_f_max} \cup (2..MaxDrag)
MaxFps == 2

\* The user moves the slider to the integer position v: the widget stores
\* it and calls the registered callback (line 61), unless v is the value it
\* already shows.
slider_changed(v) ==
    /\ pc = "Idle"
    /\ v \in freq_slider.valmin..freq_slider.valmax
    /\ RatInt(v) # freq_slider.val
    /\ freq_slider' = [freq_slider EXCEPT !.val = RatInt(v)]
    /\ update(RatInt(v))
    /\ UNCHANGED <<pc, an, out_file, sweep>>

\* animate(filename, fps), lines 103-110: the animation over
\* np.linspace(f_min, f_max) is created and save() starts the writer, which
\* holds the output file from here on.
animate(fps) ==
    /\ pc = "Idle"
    /\ pc' = "Saving"
    /\ an' = [frames |-> linspace(f_min, f_max, linspace_num), drawn |-> 0,
              grabbed |-> 0, fps |-> fps, held |-> TRUE, outcome |-> "none",
              exc |-> ""]
    /\ sweep' = <<>>
    /\ UNCHANGED <<fs, freq, duree, f_min, f_max, td, fd, freq_slider,
                   out_file, last_arg>>

\* animation_update(freq), lines 99-101, called by save() for the next
\* frame: set_val stores the value in the slider and calls update with it.
animation_update ==
    /\ pc = "Saving"
    /\ an.drawn = an.grabbed
    /\ an.drawn < Len(an.frames)
    /\ LET f == an.frames[an.drawn + 1]
       IN  /\ freq_slider' = [freq_slider EXCEPT !.val = f]
           /\ update(f)
           /\ sweep' = Append(sweep, f)
    /\ an' = [an EXCEPT !.drawn = an.drawn + 1]
    /\ UNCHANGED <<pc, out_file>>

\* save() captures the frame just drawn into the movie file.
grab_frame ==
    /\ pc = "Saving"
    /\ an.drawn = an.grabbed + 1
    /\ an' = [an EXCEPT !.grabbed = an.grabbed + 1]
    /\ out_file' = "partial"
    /\ UNCHANGED <<fs, freq, duree, f_min, f_max, td, fd, freq_slider, pc,
                   last_arg, sweep>>

\* save() returns after the last frame: the writer finishes the file and
\* releases it, and animate returns.
animate_return ==
    /\ pc = "Saving"
    /\ an.grabbed = Len(an.frames)
    /\ pc' = "Idle"
    /\ an' = [NoExport EXCEPT !.outcome = "ok"]
    /\ out_file' = "complete"
    /\ UNCHANGED <<fs, freq, duree, f_min, f_max, td, fd, freq_slider,
                   last_arg, sweep>>

\* The writer fails (the encoder cannot be started, or a write to the file
\* or the encoder's exit fails).  Nothing in animate catches or converts the
\* exception or removes the file: the library's exception leaves animate,
\* the writer's context releases the file, and what was written stays.
animate_raise ==
    /\ pc = "Saving"
    /\ pc' = "Idle"
    /\ an' = [NoExport EXCEPT !.outcome = "raised",
                              !.exc = IF an.drawn = 0 THEN "FileNotFoundError"
                                      ELSE "CalledProcessError"]
    /\ out_file' \in (IF an.drawn = 0 THEN {out_file} ELSE {out_file, "partial"})
    /\ UNCHANGED <<fs, freq, duree, f_min, f_max, td, fd, freq_slider,
                   last_arg, sweep>>

\* The window as __init__ leaves it (lines 29-43).
CtlInit ==
    /\ fs = init_fs
    /\ freq = RatInt(init_freq)
    /\ duree = init_duree
    /\ f_min = init_f_min
    /\ f_max = init_f_max
    /\ freq_slider = init_sliders
    /\ td = init_time_domain(EmptyAxes, init_fs, init_duree,
                             RatInt(init_freq), init_f_max)
    /\ fd = init_freq_domain(EmptyAxes, init_fs, init_duree, RatInt(init_freq))
    /\ pc = "Idle"
    /\ an = NoExport
    /\ out_file = "absent"
    /\ last_arg = <<>>
    /\ sweep = <<>>

EngIdle ==
    /\ e_fs = 0 /\ e_duree = 0 /\ e_sig = <<>> /\ e_out = "none"
    /\ e_pc = "unused"

Init == CtlInit /\ EngIdle

Next ==
    \/ \E v \in DragStops : slider_changed(v) /\ UNCHANGED eng_vars
    \/ \E fps \in 1..MaxFps : animate(fps) /\ UNCHANGED eng_vars
    \/ animation_update /\ UNCHANGED eng_vars
    \/ grab_frame /\ UNCHANGED eng_vars
    \/ animate_return /\ UNCHANGED eng_vars
    \/ animate_raise /\ UNCHANGED eng_vars

Spec == Init /\ [][Next]_vars

\* The event loop is single-threaded and save() is a loop of synchronous
\* calls: a frame that can be drawn or captured is, and save() returns.
\* A frame is drawn by animation_update and by no other step, so fairness of
\* that call is fairness of the step that counts the frame.
frame_drawn ==
    /\ pc = "Saving"
    /\ an.drawn = an.grabbed
    /\ an.drawn < Len(an.frames)
    /\ an' = [an EXCEPT !.drawn = an.drawn + 1]

FairSpec ==
    /\ Spec
    /\ WF_an(frame_drawn)
    /\ WF_vars(grab_frame /\ UNCHANGED eng_vars)
    /\ WF_vars(animate_return /\ UNCHANGED eng_vars)

---------------------------------------------------------------------------
(* One call of compute_dft on inputs of the caller's choosing *)

MaxRate == 3
MaxDur == 2
MaxSigFreq == 2
MaxConstLen == 2

\* A window duration whose reciprocal is rounded down far enough for
\* np.arange to overshoot (the least such).
WideDur == 7 * 7

ConstAmps == {1, -2}

ConstSig(c, n) == [i \in 1..n |-> Const(c)]

\* The sample sequences handed to compute_dft: none, constants, and what
\* gen_sig makes of the same rate and duration for integer frequencies.
SigInputs(rate, dur) ==
    {<<>>}
    \cup {ConstSig(c, n) : c \in ConstAmps, n \in 1..MaxConstLen}
    \cup (IF rate \in 1..MaxRate /\ dur \in 1..MaxDur
          THEN {gen_sig(rate, dur, RatInt(f)).sig : f \in 0..MaxSigFreq}
               \cup {ConstSig(c, rate * dur) : c \in ConstAmps}
          ELSE {})
    \cup (IF rate \in 1..MaxRate /\ dur = WideDur
          THEN {gen_sig(rate, dur, RatInt(1)).sig}
          ELSE {})

EngInit ==
    /\ CtlInit
    /\ e_pc = "call"
    /\ e_out = "none"
    /\ e_fs \in -1..MaxRate
    /\ e_duree \in (-1..MaxDur) \cup {WideDur}
    /\ e_sig \in SigInputs(e_fs, e_duree)

compute_dft_call ==
    /\ e_pc = "call"
    /\ e_out' = compute_dft(e_fs, e_duree, e_sig)
    /\ e_pc' = "done"
    /\ UNCHANGED <<e_fs, e_duree, e_sig>>

EngNext == compute_dft_call /\ UNCHANGED ctl_vars

EngSpec == EngInit /\ [][EngNext]_vars

---------------------------------------------------------------------------
(* What the surfaces show *)

\* The sampled Signal and the Spectrum as drawn: the samples of the second
\* curve of the time surface, and the first curve of the frequency surface
\* with the transform of the samples it was computed from.
Samples == td.artists[2].sig

SpectrumPlot == fd.artists[1]

RenderedSpectrum == dft_tf(fs, duree, SpectrumPlot.mag_of)

VLineIdx == {i \in DOMAIN fd.artists : fd.artists[i].kind = "axvline"}

VLinesOf(color, solid) ==
    {fd.artists[i].x :
        i \in {j \in VLineIdx : /\ fd.artists[j].color = color
                                /\ (fd.artists[j].dashes = <<>>) = solid}}

Shading == fd.artists[Len(fd.artists)]

\* The controller rests right after construction and one update(v).
AfterSetFrequency(v) ==
    /\ pc = "Idle"
    /\ an.outcome = "none"
    /\ out_file = "absent"
    /\ last_arg = <<RatInt(v)>>

---------------------------------------------------------------------------
(* The window: slider, renders, export *)

\* C1: in every state the controller rests in (idle, or between two frames
\* of an export), signal_frequency is the argument of the last update, both
\* surfaces hold exactly what the current signal_frequency, and no earlier
\* one, generates (sampled signal, spectrum, reference lines, on surfaces
\* cleared first), and sample_rate, window_duration, f_min and f_max are the
\* values of construction, the first two positive.
C1_SetFrequencyConsistent ==
    /\ last_arg # <<>> => freq = last_arg[1]
    /\ td = init_time_domain(EmptyAxes, fs, duree, freq, f_max)
    /\ fd = init_freq_domain(EmptyAxes, fs, duree, freq)
    /\ Samples = gen_sig(fs, duree, freq).sig
    /\ SpectrumPlot.mag_of = Samples
    /\ fs = init_fs /\ duree = init_duree
    /\ f_min = init_f_min /\ f_max = init_f_max
    /\ fs > 0 /\ duree > 0

\* Idle again after a complete export, then dragged to 24 Hz.
C1_Witness ==
    /\ pc = "Idle"
    /\ an.outcome = "ok"
    /\ last_arg = <<RatInt(24)>>
    /\ freq = RatInt(24)
    /\ Samples[2] # Zero

SweepInv ==
    pc = "Saving" =>
        /\ Len(an.frames) = linspace_num
        /\ sweep = SubSeq(an.frames, 1, an.drawn)
        /\ an.drawn \in {an.grabbed, an.grabbed + 1}
        /\ an.drawn > 0 =>
              /\ freq = sweep[an.drawn]
              /\ freq_slider.val = freq
              /\ last_arg = <<freq>>
              /\ Samples = gen_sig(fs, duree, freq).sig
        /\ \A i \in 1..Len(sweep) :
              RatLeq(RatInt(f_min), sweep[i]) /\ RatLeq(sweep[i], RatInt(f_max))
        /\ \A i \in 1..(Len(sweep) - 1) :
              /\ RatLeq(sweep[i], sweep[i + 1])
              /\ RatAdd(sweep[i + 1], RatNeg(sweep[i]))
                    = Rat(f_max - f_min, linspace_num - 1)
        /\ Len(sweep) >= 1 => sweep[1] = RatInt(f_min)
        /\ an.grabbed = Len(an.frames) =>
              /\ Len(sweep) = linspace_num
              /\ sweep[Len(sweep)] = RatInt(f_max)
              /\ freq = RatInt(f_max)

ExportReturns == pc = "Saving" /\ pc' = "Idle" /\ an'.outcome = "ok"

C7_ExportErrorSurfaced ==
    an.outcome = "raised" =>
        /\ an.exc = "ExportError"
        /\ ~an.held
        /\ out_file # "partial"

\* C8: the vertical lines on the frequency surface are, as a set, the
\* frequencies (k-1)*fs + f and -f + (k+1)*fs for k in 0..3 and f itself, of
\* the current fs and f; the first family is blue and dashed, the second red
\* and dashed, and the line at f is blue and solid.
C8_MarkerSet ==
    LET down == {Rat((k - 1) * fs * freq.den + freq.num, freq.den) : k \in 0..3}
        up == {Rat((k + 1) * fs * freq.den - freq.num, freq.den) : k \in 0..3}
    IN  /\ {fd.artists[i].x : i \in VLineIdx} = down \cup up \cup {freq}
        /\ VLinesOf("b", FALSE) = down
        /\ VLinesOf("r", FALSE) = up
        /\ VLinesOf("b", TRUE) = {freq}
        /\ VLinesOf("r", TRUE) = {}
        /\ \A i \in VLineIdx : fd.artists[i].color \in {"b", "r"}

C8_Witness ==
    /\ last_arg = <<RatInt(24)>>
    /\ RatInt(26) \in VLinesOf("r", FALSE)
    /\ RatInt(-26) \in VLinesOf("b", FALSE)
    /\ RatInt(176) \in VLinesOf("r", FALSE)

\* C10: on every render of the frequency surface the shaded region is the
\* bins 0..N-1, N the number of samples of the Signal; every one of them is
\* a bin of the spectrum (N <= K, no index out of range), and their
\* frequencies lie in [0, fs), from 0 up to fs - 1/duree.
C10_ShadedPrimaryBand ==
    LET N == Len(Samples)
        K == Len(SpectrumPlot.freqs)
    IN  /\ fd.error = ""
        /\ Shading.kind = "fill_between"
        /\ N >= 1 /\ N <= K
        /\ Shading.idxs = [i \in 1..N |-> i - 1]
        /\ Shading.mag_of = SpectrumPlot.mag_of
        /\ \A i \in 1..N :
              /\ Shading.idxs[i] < K
              /\ Shading.x[i] = SpectrumPlot.freqs[Shading.idxs[i] + 1]
              /\ RatLeq(RatInt(0), Shading.x[i])
              /\ RatLt(Shading.x[i], RatInt(fs))
        /\ Shading.x[1] = RatInt(0)
        /\ Shading.x[N] = Rat(fs * duree - 1, duree)

C10_Witness ==
    /\ last_arg # <<>>
    /\ Shading.kind = "fill_between"
    /\ Len(Shading.idxs) = 150
    /\ Shading.idxs[150] = 149
    /\ Shading.x[150] = Rat(149, 3)

---------------------------------------------------------------------------
(* The engine *)

Returned == e_pc = "done" /\ e_out.outcome = "ok"

IsConstSig(sig) == Len(sig) >= 1 /\ \A n \in 1..Len(sig) : sig[n] = sig[1]

\* C2 as stated: a call with a sample rate or a duration that is not
\* positive, or with no samples, ends in InvalidInput.
C2_InvalidInputRaised ==
    (e_pc = "done" /\ (e_fs <= 0 \/ e_duree <= 0 \/ Len(e_sig) = 0))
        => e_out.outcome = "InvalidInput"

\* C3 as stated: for positive integers fs and duree the call returns
\* K = 3*fs*duree frequencies and as many spectrum values, the k-th
\* frequency k/duree, the first 0 and every one below 3*fs; 450 of them for
\* the defaults.
C3_ThreePeriodsOfBins ==
    /\ dft_len(init_fs, init_duree) = 450
    /\ (e_pc = "done" /\ e_fs >= 1 /\ e_duree >= 1) =>
          /\ e_out.outcome = "ok"
          /\ Len(e_out.freqs) = 3 * e_fs * e_duree
          /\ Len(e_out.tf) = 3 * e_fs * e_duree
          /\ e_out.freqs[1] = RatInt(0)
          /\ \A k \in 1..Len(e_out.freqs) :
                /\ e_out.freqs[k] = Rat(k - 1, e_duree)
                /\ RatLt(e_out.freqs[k], RatInt(3 * e_fs))

\* C5 (as amended): for a constant sequence of N samples the bins that are
\* not zero are exactly those whose index is a multiple of N (0, N, 2N, ...)
\* when the constant is not zero, and none when it is zero, which is what
\* the generator's sin(2*pi*0*t) gives.
C5_ConstantSpectrum ==
    (Returned /\ IsConstSig(e_sig)) =>
        LET N == Len(e_sig)
            X == e_out.tf
        IN  IF IsZero(e_sig[1])
            THEN \A k \in 1..Len(X) : IsZero(X[k])
            ELSE \A k \in 1..Len(X) : IsZero(X[k]) <=> ((k - 1) % N # 0)

\* A constant that is not zero, with a bin one period above bin 0; and the
\* generator's zero-frequency signal.
C5_Witness ==
    /\ Returned
    /\ e_fs >= 1 /\ e_duree >= 1
    /\ IsConstSig(e_sig)
    /\ e_sig[1] = Const(-2)
    /\ Len(e_sig) = 2
    /\ Len(e_out.tf) > 2
    /\ ~IsZero(e_out.tf[3])

\* C5 as stated: for a constant sequence bin 0 is not zero and is the only
\* one of the K bins that is not zero.
C5_OnlyBinZero ==
    (Returned /\ e_fs >= 1 /\ e_duree >= 1 /\ IsConstSig(e_sig)) =>
        /\ Len(e_out.tf) >= 1
        /\ ~IsZero(e_out.tf[1])
        /\ \A k \in 2..Len(e_out.tf) : IsZero(e_out.tf[k])

\* C9 as stated: with N = len(sig) = fs*duree the K = 3N bins are three
\* identical repetitions of the first N: X[k+N] = X[k] whenever k + N < K.
C9_ThreeRepetitions ==
    (e_pc = "done" /\ e_fs >= 1 /\ e_duree >= 1 /\ Len(e_sig) = e_fs * e_duree) =>
        /\ e_out.outcome = "ok"
        /\ LET N == Len(e_sig)
               X == e_out.tf
           IN  /\ \A k \in 1..(Len(X) - N) : EqNum(X[k + N], X[k])
               /\ Len(X) = 3 * N

=============================================================================
